---- MODULE Spec2Model ----
(***************************************************************************)
(* DeleteSpace (code-semantics/test-doubles/example/delete_space.go): a    *)
(* guard chain over one space fetched from an injected Store, followed by  *)
(* the removal of the space through the same Store.                        *)
(*                                                                         *)
(* Each invocation of DeleteSpace is a process that walks the function     *)
(* statement by statement; the Store is shared by the invocations.         *)
(***************************************************************************)
EXTENDS Integers, Sequences, FiniteSets, TLC

(* ---------------- bounds of the model ---------------- *)

\* longest resources slice a stored space holds
MaxResources == 1

\* longest list of options handed to NewThirdAPI, and longest timeout
MaxOpts == 3
MaxDuration == 2

\* longest list of options handed to SpaceOwnedBy
MaxTweaks == 2

\* the invocations of DeleteSpace that can be in progress at once
Procs == {"call-1", "call-2"}

\* the ids, users and names the calls and the store draw from
Ids == {"known-space", "other-space"}
Users == {"known-owner", "unknown-owner"}

(* ---------------- delete_space.go: constants and errors ---------------- *)

\* slip: the protected name is misspelt
defaultSpaceName_Misspelt == "Default"

defaultSpaceName == "default"

\* the names the stored spaces carry
Names == {"default", "not a default space"}

\* a nil *Space and a nil error
NilSpace == [nil |-> TRUE]
nil == "<nil>"

errCannotFetchSpace == "cannot fetch the space"
errNotAnOwnedSpace == "only owned spaces can be removed"
errNonEmptySpace == "only empty spaces can be removed"
errUnremovableDefaultSpace == "the default space cannot be removed"
errSpaceCouldNotBeRemoved == "the space could not be removed"

\* the errors DeleteSpace itself returns from its guards
GuardErrors ==
    {errCannotFetchSpace, errNotAnOwnedSpace, errNonEmptySpace,
     errUnremovableDefaultSpace}

\* the value an invocation holds in returnedErr until it returns
NotReturned == "<not returned>"

(* ---------------- delete_space.go: Space ---------------- *)

resource == "resource{}"

Resources == UNION {[1..n -> {resource}] : n \in 0..MaxResources}

Space == [id : Ids, ownerID : Users, name : Names, resources : Resources]

\* slip: every space counts as owned
isOwnedBy_Always(s, userID) == s.ownerID = s.ownerID

isOwnedBy(s, userID) == s.ownerID = userID

isEmpty(s) == Len(s.resources) = 0

\* slip: the condition is inverted
isTheDefault_Inverted(s) == s.name # defaultSpaceName

isTheDefault(s) == s.name = defaultSpaceName

(* ---------------- state ---------------- *)

VARIABLES
    storage,        \* the Store's records: id -> Space or NilSpace
    pc,             \* per invocation: the statement it is about to run
    args,           \* per invocation: the arguments id and whoAmI
    space,          \* per invocation: the local variable space
    removeResult,   \* per invocation: what the Store answers to its removal
    returnedErr,    \* per invocation: the error DeleteSpace returned
    trace,          \* per invocation: the Store calls and guard evaluations made
    last,           \* per invocation: the call before this one, as its caller kept it
    playerStore,    \* player: the domain.Store handed to PlayNextUseCase
    playPc,         \* player: the statement the use case is about to run
    currentlyPlaying, \* player: the argument of the use case
    videoID,        \* player: the local variable videoID
    playErr,        \* player: the local variable err
    played,         \* player: what the use case returned
    storeCalls,     \* player: the calls the use case made on the store
    apiArgs,        \* options: the arguments clientName, apiKey and opts
    api,            \* options: the ThirdAPI that NewThirdAPI is building
    applied,        \* options: how many of opts NewThirdAPI has applied
    second,         \* options: the SecondAPI built from the same settings
    secondApplied,  \* options: how many of opts were carried to the SecondAPI
    motherArgs,     \* builder: the arguments userID and opts of SpaceOwnedBy
    built,          \* builder: the Space that SpaceOwnedBy is building
    tweaked         \* builder: how many of opts tweak has applied

\* the state of the PlayNext use case
playerVars ==
    <<playerStore, playPc, currentlyPlaying, videoID, playErr, played, storeCalls>>

\* the state of the two API constructors
apiVars == <<apiArgs, api, applied, second, secondApplied>>

\* the state of the Space builder
builderVars == <<motherArgs, built, tweaked>>

\* what a statement of DeleteSpace leaves alone
otherVars == <<last, playerVars, apiVars, builderVars>>

\* the state of the invocations of DeleteSpace and of the Store
deleteVars ==
    <<storage, pc, args, space, removeResult, returnedErr, trace, last>>

vars ==
    <<storage, pc, args, space, removeResult, returnedErr, trace, last,
      playerStore, playPc, currentlyPlaying, videoID, playErr, played, storeCalls,
      apiArgs, api, applied, second, secondApplied, motherArgs, built, tweaked>>

\* what RemoveSpaceWithID answers: no error, or the error of the test double
RemoveResults == {nil, errSpaceCouldNotBeRemoved}

Event(op, arg) == [op |-> op, arg |-> arg]

(* ---------------- the Store ---------------- *)

\* the ids the hardcoded fetchSpaceWithID and removeSpaceWithID tell apart,
\* and "known-space", one they treat as any other
HardcodedIds ==
    {"known-space", "unknown-space", "non-empty-space", "default-space",
     "fails-on-remove"}

\* func fetchSpaceWithID(id string) *Space, of the dependency-free DeleteSpace
fetchSpaceWithID(id) ==
    LET base == [id |-> "known-space", ownerID |-> "known-owner",
                 name |-> "a space name", resources |-> <<>>] IN
    CASE id = "unknown-space" -> NilSpace
      [] id = "non-empty-space" -> [base EXCEPT !.resources = <<resource>>]
      [] id = "default-space" -> [base EXCEPT !.name = defaultSpaceName]
      [] OTHER -> base

\* func removeSpaceWithID(id string) error, of the dependency-free DeleteSpace
removeSpaceWithID(id) ==
    IF id = "fails-on-remove" THEN errSpaceCouldNotBeRemoved ELSE nil

\* func DeleteSpace(id string, whoAmI string) error, the dependency-free one
DeleteSpace(id, whoAmI) ==
    LET s == fetchSpaceWithID(id) IN
    IF s = NilSpace THEN errCannotFetchSpace
    ELSE IF ~isOwnedBy(s, whoAmI) THEN errNotAnOwnedSpace
    ELSE IF ~isEmpty(s) THEN errNonEmptySpace
    ELSE IF isTheDefault(s) THEN errUnremovableDefaultSpace
    ELSE removeSpaceWithID(id)

\* the Store whose two methods behave as fetchSpaceWithID and
\* removeSpaceWithID do: it keeps no records
HardcodedStore == [hardcoded |-> TRUE]

\* slip: the hardcoded Store answers every fetch with the basic space
FetchSpaceWithID_Basic(id) ==
    IF storage = HardcodedStore
       THEN fetchSpaceWithID("known-space")
       ELSE storage[id]

\* Store.FetchSpaceWithID: the record kept under id, nil when there is none
FetchSpaceWithID(id) ==
    IF storage = HardcodedStore THEN fetchSpaceWithID(id) ELSE storage[id]

\* Store.RemoveSpaceWithID: the records after a removal answered with res
RemoveSpaceWithID(id, res) ==
    IF storage = HardcodedStore THEN storage
    ELSE IF res = nil THEN [storage EXCEPT ![id] = NilSpace] ELSE storage

(* ---------------- Init ---------------- *)

NoArgs == [id |-> "", whoAmI |-> ""]

\* the caller of an invocation has kept no earlier call
NoCall == [none |-> TRUE]

\* no invocation of DeleteSpace has been made yet
NoInvocation ==
    /\ pc = [p \in Procs |-> "idle"]
    /\ args = [p \in Procs |-> NoArgs]
    /\ space = [p \in Procs |-> NilSpace]
    /\ removeResult = [p \in Procs |-> nil]
    /\ returnedErr = [p \in Procs |-> NotReturned]
    /\ trace = [p \in Procs |-> <<>>]
    /\ last = [p \in Procs |-> NoCall]

(* ---------------- player: domain (VideoID, VideoIDFrom, Store) ---------------- *)

\* the raw ids handed to the use case, and the ids the store knows
RawVideoIDs == {"", " ", "video-1", "video-2"}

\* var NoVideo = VideoID("")
NoVideo == ""

\* type VideoID string: the conversion VideoID(raw) keeps the string
VideoID(raw) == raw

VideoIDs == {VideoID(raw) : raw \in RawVideoIDs}

errInvalidVideoID == "invalid video ID"

\* slip: the validation is left out
VideoIDFrom_Unchecked(raw) == [videoID |-> VideoID(raw), err |-> nil]

\* func VideoIDFrom(raw string) (VideoID, error)
VideoIDFrom(raw) ==
    IF raw = ""
        THEN [videoID |-> NoVideo, err |-> errInvalidVideoID]
        ELSE [videoID |-> VideoID(raw), err |-> nil]

\* the stores a use case can be given: the setting, and the video that
\* follows each video
PlayerStores == [enabled : BOOLEAN, next : [VideoIDs -> VideoIDs]]

\* what played holds until the use case returns
NothingPlayed == [videoID |-> NoVideo, err |-> NotReturned]

\* the use case has not been called
PlayerIdle ==
    /\ playPc = "idle"
    /\ currentlyPlaying = ""
    /\ videoID = NoVideo
    /\ playErr = nil
    /\ played = NothingPlayed
    /\ storeCalls = <<>>

(* ---------------- options: ThirdAPI, SecondAPI ---------------- *)

\* a nil *ThirdAPI or *SecondAPI
NilAPI == [nil |-> TRUE]

NoAPIArgs == [clientName |-> "", apiKey |-> "", opts |-> <<>>]

\* no constructor has been called
APIIdle ==
    /\ api = NilAPI
    /\ applied = 0
    /\ second = NilAPI
    /\ secondApplied = 0

(* ---------------- builder: SpaceOwnedBy ---------------- *)

NoMotherArgs == [userID |-> "", opts |-> <<>>]

\* SpaceOwnedBy has not been called
BuilderIdle ==
    /\ built = NilSpace
    /\ tweaked = 0

\* neither the constructors nor the builder are in use
NoConstruction ==
    /\ apiArgs = NoAPIArgs
    /\ APIIdle
    /\ motherArgs = NoMotherArgs
    /\ BuilderIdle

Init ==
    /\ storage \in [Ids -> Space \cup {NilSpace}]
    /\ \A id \in Ids : storage[id] # NilSpace => storage[id].id = id
    /\ NoInvocation
    /\ playerStore = [enabled |-> FALSE, next |-> [v \in VideoIDs |-> NoVideo]]
    /\ PlayerIdle
    /\ NoConstruction

(* ---------------- DeleteSpace, statement by statement ---------------- *)

\* the invocation p returns err
Return(p, err) ==
    /\ pc' = [pc EXCEPT ![p] = "done"]
    /\ returnedErr' = [returnedErr EXCEPT ![p] = err]

\* the invocation p goes on to the statement at label
Goto(p, label) ==
    /\ pc' = [pc EXCEPT ![p] = label]
    /\ UNCHANGED returnedErr

\* DeleteSpace(store, id, whoAmI) is called; the Store's answer to a removal
\* made by this call is fixed as the test double fixes it before the call
Call(p, id, whoAmI, res) ==
    /\ pc[p] \in {"idle", "done"}
    /\ pc' = [pc EXCEPT ![p] = "fetch"]
    /\ args' = [args EXCEPT ![p] = [id |-> id, whoAmI |-> whoAmI]]
    /\ space' = [space EXCEPT ![p] = NilSpace]
    /\ removeResult' = [removeResult EXCEPT ![p] = res]
    /\ returnedErr' = [returnedErr EXCEPT ![p] = NotReturned]
    /\ trace' = [trace EXCEPT ![p] = <<>>]
    /\ UNCHANGED storage
    /\ UNCHANGED otherVars

\* slip (the nested form of the guard-clauses chapter): an absent space is
\* reported with the error of the ownership guard
FetchSpace_OwnedError(p) ==
    /\ pc[p] = "fetch"
    /\ LET s == FetchSpaceWithID(args[p].id) IN
        /\ space' = [space EXCEPT ![p] = s]
        /\ trace' = [trace EXCEPT
                        ![p] = Append(@, Event("FetchSpaceWithID", args[p].id))]
        /\ IF s = NilSpace
              THEN Return(p, errNotAnOwnedSpace)
              ELSE Goto(p, "owned")
    /\ UNCHANGED <<storage, args, removeResult>>
    /\ UNCHANGED otherVars

\* slip: the nil guard is applied to the wrong condition, so an absent space
\* falls through to the removal
FetchSpace_NoNilGuard(p) ==
    /\ pc[p] = "fetch"
    /\ LET s == FetchSpaceWithID(args[p].id) IN
        /\ space' = [space EXCEPT ![p] = s]
        /\ trace' = [trace EXCEPT
                        ![p] = Append(@, Event("FetchSpaceWithID", args[p].id))]
        /\ IF s = NilSpace
              THEN Goto(p, "remove")
              ELSE Goto(p, "owned")
    /\ UNCHANGED <<storage, args, removeResult>>
    /\ UNCHANGED otherVars

\* slip: a call for the id of the call before reuses the space that call
\* had fetched
FetchSpace_Cached(p) ==
    /\ pc[p] = "fetch"
    /\ LET s == IF last[p] # NoCall /\ last[p].args.id = args[p].id
                   THEN last[p].space
                   ELSE FetchSpaceWithID(args[p].id) IN
        /\ space' = [space EXCEPT ![p] = s]
        /\ trace' = [trace EXCEPT
                        ![p] = Append(@, Event("FetchSpaceWithID", args[p].id))]
        /\ IF s = NilSpace
              THEN Return(p, errCannotFetchSpace)
              ELSE Goto(p, "owned")
    /\ UNCHANGED <<storage, args, removeResult>>
    /\ UNCHANGED otherVars

\* space := store.FetchSpaceWithID(id); if space == nil { return errCannotFetchSpace }
FetchSpace(p) ==
    /\ pc[p] = "fetch"
    /\ LET s == FetchSpaceWithID(args[p].id) IN
        /\ space' = [space EXCEPT ![p] = s]
        /\ trace' = [trace EXCEPT
                        ![p] = Append(@, Event("FetchSpaceWithID", args[p].id))]
        /\ IF s = NilSpace
              THEN Return(p, errCannotFetchSpace)
              ELSE Goto(p, "owned")
    /\ UNCHANGED <<storage, args, removeResult>>
    /\ UNCHANGED otherVars

\* slip: the acting user passes when they own any record of the Store
GuardOwned_AnyRecord(p) ==
    /\ pc[p] = "owned"
    /\ trace' = [trace EXCEPT ![p] = Append(@, Event("isOwnedBy", args[p].whoAmI))]
    /\ IF ~\E id \in Ids : /\ storage[id] # NilSpace
                            /\ isOwnedBy(storage[id], args[p].whoAmI)
          THEN Return(p, errNotAnOwnedSpace)
          ELSE Goto(p, "empty")
    /\ UNCHANGED <<storage, args, space, removeResult>>
    /\ UNCHANGED otherVars

\* slip: the ownership guard turns away the owner and lets the others pass
GuardOwned_Inverted(p) ==
    /\ pc[p] = "owned"
    /\ trace' = [trace EXCEPT ![p] = Append(@, Event("isOwnedBy", args[p].whoAmI))]
    /\ IF isOwnedBy(space[p], args[p].whoAmI)
          THEN Return(p, errNotAnOwnedSpace)
          ELSE Goto(p, "empty")
    /\ UNCHANGED <<storage, args, space, removeResult>>
    /\ UNCHANGED otherVars

\* slip: the ownership guard is left out
GuardOwned_Missing(p) ==
    /\ pc[p] = "owned"
    /\ Goto(p, "empty")
    /\ UNCHANGED <<storage, args, space, removeResult, trace>>
    /\ UNCHANGED otherVars

\* if !space.isOwnedBy(whoAmI) { return errNotAnOwnedSpace }
GuardOwned(p) ==
    /\ pc[p] = "owned"
    /\ trace' = [trace EXCEPT ![p] = Append(@, Event("isOwnedBy", args[p].whoAmI))]
    /\ IF ~isOwnedBy(space[p], args[p].whoAmI)
          THEN Return(p, errNotAnOwnedSpace)
          ELSE Goto(p, "empty")
    /\ UNCHANGED <<storage, args, space, removeResult>>
    /\ UNCHANGED otherVars

\* slip: the default-name guard is written before the emptiness guard
GuardEmpty_DefaultFirst(p) ==
    /\ pc[p] = "empty"
    /\ IF isTheDefault(space[p])
          THEN /\ trace' = [trace EXCEPT ![p] = Append(@, Event("isTheDefault", ""))]
               /\ Return(p, errUnremovableDefaultSpace)
          ELSE /\ trace' = [trace EXCEPT ![p] = Append(@, Event("isEmpty", ""))]
               /\ IF ~isEmpty(space[p])
                     THEN Return(p, errNonEmptySpace)
                     ELSE Goto(p, "remove")
    /\ UNCHANGED <<storage, args, space, removeResult>>
    /\ UNCHANGED otherVars

\* slip: the emptiness guard is left out
GuardEmpty_Missing(p) ==
    /\ pc[p] = "empty"
    /\ Goto(p, "default")
    /\ UNCHANGED <<storage, args, space, removeResult, trace>>
    /\ UNCHANGED otherVars

\* slip: an empty space is removed as soon as it is found empty, before the
\* default-name guard
GuardEmpty_RemoveEarly(p) ==
    /\ pc[p] = "empty"
    /\ trace' = [trace EXCEPT ![p] = Append(@, Event("isEmpty", ""))]
    /\ IF ~isEmpty(space[p])
          THEN Return(p, errNonEmptySpace) /\ UNCHANGED storage
          ELSE Goto(p, "default") /\ storage' = RemoveSpaceWithID(args[p].id, nil)
    /\ UNCHANGED <<args, space, removeResult>>
    /\ UNCHANGED otherVars

\* slip: the emptiness guard is applied to the first call of a caller only
GuardEmpty_CheckedOnce(p) ==
    /\ pc[p] = "empty"
    /\ trace' = [trace EXCEPT ![p] = Append(@, Event("isEmpty", ""))]
    /\ IF last[p] = NoCall /\ ~isEmpty(space[p])
          THEN Return(p, errNonEmptySpace)
          ELSE Goto(p, "default")
    /\ UNCHANGED <<storage, args, space, removeResult>>
    /\ UNCHANGED otherVars

\* if !space.isEmpty() { return errNonEmptySpace }
GuardEmpty(p) ==
    /\ pc[p] = "empty"
    /\ trace' = [trace EXCEPT ![p] = Append(@, Event("isEmpty", ""))]
    /\ IF ~isEmpty(space[p])
          THEN Return(p, errNonEmptySpace)
          ELSE Goto(p, "default")
    /\ UNCHANGED <<storage, args, space, removeResult>>
    /\ UNCHANGED otherVars

\* slip: the default-name guard is left out
GuardDefault_Missing(p) ==
    /\ pc[p] = "default"
    /\ Goto(p, "remove")
    /\ UNCHANGED <<storage, args, space, removeResult, trace>>
    /\ UNCHANGED otherVars

\* slip: the space is fetched again for the default-name guard
GuardDefault_Refetch(p) ==
    /\ pc[p] = "default"
    /\ LET s == FetchSpaceWithID(args[p].id) IN
        /\ space' = [space EXCEPT ![p] = s]
        /\ trace' = [trace EXCEPT
                        ![p] = @ \o <<Event("FetchSpaceWithID", args[p].id),
                                      Event("isTheDefault", "")>>]
        /\ IF s = NilSpace
              THEN Return(p, errCannotFetchSpace)
              ELSE IF isTheDefault(s)
                      THEN Return(p, errUnremovableDefaultSpace)
                      ELSE Goto(p, "remove")
    /\ UNCHANGED <<storage, args, removeResult>>
    /\ UNCHANGED otherVars

\* if space.isTheDefault() { return errUnremovableDefaultSpace }
GuardDefault(p) ==
    /\ pc[p] = "default"
    /\ trace' = [trace EXCEPT ![p] = Append(@, Event("isTheDefault", ""))]
    /\ IF isTheDefault(space[p])
          THEN Return(p, errUnremovableDefaultSpace)
          ELSE Goto(p, "remove")
    /\ UNCHANGED <<storage, args, space, removeResult>>
    /\ UNCHANGED otherVars

\* slip: the error of the removal is dropped
RemoveSpace_Swallow(p) ==
    /\ pc[p] = "remove"
    /\ trace' = [trace EXCEPT
                    ![p] = Append(@, Event("RemoveSpaceWithID", args[p].id))]
    /\ storage' = RemoveSpaceWithID(args[p].id, removeResult[p])
    /\ Return(p, nil)
    /\ UNCHANGED <<args, space, removeResult>>
    /\ UNCHANGED otherVars

\* slip: a failed removal is tried once more
RemoveSpace_Retry(p) ==
    /\ pc[p] = "remove"
    /\ trace' = [trace EXCEPT
                    ![p] = IF removeResult[p] = nil
                              THEN Append(@, Event("RemoveSpaceWithID", args[p].id))
                              ELSE @ \o <<Event("RemoveSpaceWithID", args[p].id),
                                          Event("RemoveSpaceWithID", args[p].id)>>]
    /\ storage' = RemoveSpaceWithID(args[p].id, removeResult[p])
    /\ Return(p, removeResult[p])
    /\ UNCHANGED <<args, space, removeResult>>
    /\ UNCHANGED otherVars

\* slip: a failed removal is tried again until it succeeds
RemoveSpace_RetryForever(p) ==
    /\ pc[p] = "remove"
    /\ IF removeResult[p] = nil
          THEN /\ trace' = [trace EXCEPT
                              ![p] = Append(@, Event("RemoveSpaceWithID", args[p].id))]
               /\ storage' = RemoveSpaceWithID(args[p].id, removeResult[p])
               /\ Return(p, removeResult[p])
          ELSE UNCHANGED <<trace, storage, pc, returnedErr>>
    /\ UNCHANGED <<args, space, removeResult>>
    /\ UNCHANGED otherVars

\* variant: the removal is conditional on the record still being there; a
\* call that finds it gone reports that the space cannot be fetched
RemoveSpace_Conditional(p) ==
    /\ pc[p] = "remove"
    /\ IF storage[args[p].id] = NilSpace
          THEN /\ Return(p, errCannotFetchSpace)
               /\ UNCHANGED <<trace, storage>>
          ELSE /\ trace' = [trace EXCEPT
                              ![p] = Append(@, Event("RemoveSpaceWithID", args[p].id))]
               /\ storage' = RemoveSpaceWithID(args[p].id, removeResult[p])
               /\ Return(p, removeResult[p])
    /\ UNCHANGED <<args, space, removeResult>>
    /\ UNCHANGED otherVars

\* return store.RemoveSpaceWithID(id)
RemoveSpace(p) ==
    /\ pc[p] = "remove"
    /\ trace' = [trace EXCEPT
                    ![p] = Append(@, Event("RemoveSpaceWithID", args[p].id))]
    /\ storage' = RemoveSpaceWithID(args[p].id, removeResult[p])
    /\ Return(p, removeResult[p])
    /\ UNCHANGED <<args, space, removeResult>>
    /\ UNCHANGED otherVars

\* the nested form of DeleteSpace the guard clauses replace: what it returns
\* for the space its fetch answered with (NilSpace for none) when the removal
\* it may reach answers with res
NestedDeleteSpace(s, whoAmI, res) ==
    IF s # NilSpace /\ s.ownerID = whoAmI
       THEN IF Len(s.resources) = 0
               THEN IF s.name # "default"
                       THEN res
                       ELSE "the default space cannot be removed"
               ELSE "only empty spaces can be removed"
       ELSE "only owned spaces can be removed"

Next ==
    \/ \E p \in Procs, id \in Ids, whoAmI \in Users, res \in RemoveResults :
          Call(p, id, whoAmI, res)
    \/ \E p \in Procs : FetchSpace(p)
    \/ \E p \in Procs : GuardOwned(p)
    \/ \E p \in Procs : GuardEmpty(p)
    \/ \E p \in Procs : GuardDefault(p)
    \/ \E p \in Procs : RemoveSpace(p)

Spec == Init /\ [][Next]_vars

\* the next statement of the invocation p
Step(p) ==
    \/ FetchSpace(p)
    \/ GuardOwned(p)
    \/ GuardEmpty(p)
    \/ GuardDefault(p)
    \/ RemoveSpace(p)

\* an invocation that has been called keeps running: the Store answers and
\* the goroutine of the call is scheduled
FairSpec == Spec /\ \A p \in Procs : WF_vars(Step(p))

(* ---------------- one caller, calling DeleteSpace again and again ---------------- *)

\* the caller of the sequential runs
Caller == "call-1"

\* what the caller keeps of the call that has just returned
Kept(p) ==
    [args |-> args[p], space |-> space[p], removeResult |-> removeResult[p],
     returnedErr |-> returnedErr[p],
     deleted |-> (IF last[p] = NoCall THEN {} ELSE last[p].deleted)
                     \cup (IF returnedErr[p] = nil THEN {args[p].id} ELSE {})]

\* DeleteSpace is called once more by a caller that keeps what the call
\* before returned
CallAgain(p, id, whoAmI, res) ==
    /\ pc[p] = "done"
    /\ last' = [last EXCEPT ![p] = Kept(p)]
    /\ pc' = [pc EXCEPT ![p] = "fetch"]
    /\ args' = [args EXCEPT ![p] = [id |-> id, whoAmI |-> whoAmI]]
    /\ space' = [space EXCEPT ![p] = NilSpace]
    /\ removeResult' = [removeResult EXCEPT ![p] = res]
    /\ returnedErr' = [returnedErr EXCEPT ![p] = NotReturned]
    /\ trace' = [trace EXCEPT ![p] = <<>>]
    /\ UNCHANGED <<storage, playerVars, apiVars, builderVars>>

\* the first call of the caller
FirstCall(p, id, whoAmI, res) ==
    /\ pc[p] = "idle"
    /\ Call(p, id, whoAmI, res)

NextSeq ==
    \/ \E id \in Ids, whoAmI \in Users, res \in RemoveResults :
          FirstCall(Caller, id, whoAmI, res)
    \/ \E id \in Ids, whoAmI \in Users, res \in RemoveResults :
          CallAgain(Caller, id, whoAmI, res)
    \/ FetchSpace(Caller)
    \/ GuardOwned(Caller)
    \/ GuardEmpty(Caller)
    \/ GuardDefault(Caller)
    \/ RemoveSpace(Caller)

SpecSeq == Init /\ [][NextSeq]_vars

(* ---------------- a Store that other actors write to ---------------- *)

\* another actor of the system writes the record kept under id: it creates,
\* changes or deletes it
OtherActor(id, s) ==
    /\ s # storage[id]
    /\ s # NilSpace => s.id = id
    /\ storage' = [storage EXCEPT ![id] = s]
    /\ UNCHANGED <<pc, args, space, removeResult, returnedErr, trace>>
    /\ UNCHANGED otherVars

NextEnv ==
    \/ \E id \in Ids, whoAmI \in Users, res \in RemoveResults :
          Call(Caller, id, whoAmI, res)
    \/ FetchSpace(Caller)
    \/ GuardOwned(Caller)
    \/ GuardEmpty(Caller)
    \/ GuardDefault(Caller)
    \/ RemoveSpace(Caller)
    \/ \E id \in Ids, s \in Space \cup {NilSpace} : OtherActor(id, s)

SpecEnv == Init /\ [][NextEnv]_vars

(* ---------------- player: the PlayNext use case ---------------- *)

\* store.IsPlayNextEnabled()
IsPlayNextEnabled == playerStore.enabled

\* store.NextAfter(videoID)
NextAfter(v) == playerStore.next[v]

\* the use case returns v and e
PlayReturn(v, e) ==
    /\ playPc' = "done"
    /\ played' = [videoID |-> v, err |-> e]

\* the use case built by PlayNextUseCase(store) is called with a raw id
PlayNext(raw) ==
    /\ playPc \in {"idle", "done"}
    /\ playPc' = "validate"
    /\ currentlyPlaying' = raw
    /\ videoID' = NoVideo
    /\ playErr' = nil
    /\ played' = NothingPlayed
    /\ storeCalls' = <<>>
    /\ UNCHANGED playerStore
    /\ UNCHANGED <<deleteVars, apiVars, builderVars>>

\* slip: the error of the validation is not looked at
ValidateVideoID_ErrIgnored ==
    /\ playPc = "validate"
    /\ LET v == VideoIDFrom(currentlyPlaying) IN
        /\ videoID' = v.videoID
        /\ playErr' = v.err
        /\ playPc' = "enabled" /\ UNCHANGED played
    /\ UNCHANGED <<playerStore, currentlyPlaying, storeCalls>>
    /\ UNCHANGED <<deleteVars, apiVars, builderVars>>

\* videoID, err := domain.VideoIDFrom(currentlyPlaying)
\* if err != nil { return videoID, err }
ValidateVideoID ==
    /\ playPc = "validate"
    /\ LET v == VideoIDFrom(currentlyPlaying) IN
        /\ videoID' = v.videoID
        /\ playErr' = v.err
        /\ IF v.err # nil
              THEN PlayReturn(v.videoID, v.err)
              ELSE playPc' = "enabled" /\ UNCHANGED played
    /\ UNCHANGED <<playerStore, currentlyPlaying, storeCalls>>
    /\ UNCHANGED <<deleteVars, apiVars, builderVars>>

\* slip: the condition on the setting is inverted
GuardEnabled_Inverted ==
    /\ playPc = "enabled"
    /\ storeCalls' = Append(storeCalls, Event("IsPlayNextEnabled", ""))
    /\ IF IsPlayNextEnabled
          THEN PlayReturn(NoVideo, nil)
          ELSE playPc' = "next" /\ UNCHANGED played
    /\ UNCHANGED <<playerStore, currentlyPlaying, videoID, playErr>>
    /\ UNCHANGED <<deleteVars, apiVars, builderVars>>

\* if !store.IsPlayNextEnabled() { return domain.NoVideo, nil }
GuardEnabled ==
    /\ playPc = "enabled"
    /\ storeCalls' = Append(storeCalls, Event("IsPlayNextEnabled", ""))
    /\ IF ~IsPlayNextEnabled
          THEN PlayReturn(NoVideo, nil)
          ELSE playPc' = "next" /\ UNCHANGED played
    /\ UNCHANGED <<playerStore, currentlyPlaying, videoID, playErr>>
    /\ UNCHANGED <<deleteVars, apiVars, builderVars>>

\* slip: the video that is playing is returned instead of the store's answer
ReturnNextAfter_Current ==
    /\ playPc = "next"
    /\ storeCalls' = Append(storeCalls, Event("NextAfter", videoID))
    /\ PlayReturn(videoID, nil)
    /\ UNCHANGED <<playerStore, currentlyPlaying, videoID, playErr>>
    /\ UNCHANGED <<deleteVars, apiVars, builderVars>>

\* return store.NextAfter(videoID), nil
ReturnNextAfter ==
    /\ playPc = "next"
    /\ storeCalls' = Append(storeCalls, Event("NextAfter", videoID))
    /\ PlayReturn(NextAfter(videoID), nil)
    /\ UNCHANGED <<playerStore, currentlyPlaying, videoID, playErr>>
    /\ UNCHANGED <<deleteVars, apiVars, builderVars>>

\* a use case built over any store, and no DeleteSpace in sight
InitPlayer ==
    /\ storage = [id \in Ids |-> NilSpace]
    /\ NoInvocation
    /\ playerStore \in PlayerStores
    /\ PlayerIdle
    /\ NoConstruction

NextPlayer ==
    \/ \E raw \in RawVideoIDs : PlayNext(raw)
    \/ ValidateVideoID
    \/ GuardEnabled
    \/ ReturnNextAfter

SpecPlayer == InitPlayer /\ [][NextPlayer]_vars

(* ---------------- DeleteSpace against the hardcoded Store ---------------- *)

\* DeleteSpace is about to be called on a Store that behaves as the
\* hardcoded functions do
InitStub ==
    /\ storage = HardcodedStore
    /\ NoInvocation
    /\ playerStore = [enabled |-> FALSE, next |-> [v \in VideoIDs |-> NoVideo]]
    /\ PlayerIdle
    /\ NoConstruction

NextStub ==
    \/ \E p \in Procs, id \in HardcodedIds, whoAmI \in Users :
          Call(p, id, whoAmI, removeSpaceWithID(id))
    \/ \E p \in Procs : FetchSpace(p)
    \/ \E p \in Procs : GuardOwned(p)
    \/ \E p \in Procs : GuardEmpty(p)
    \/ \E p \in Procs : GuardDefault(p)
    \/ \E p \in Procs : RemoveSpace(p)

SpecStub == InitStub /\ [][NextStub]_vars

(* ---------------- options: NewThirdAPI and NewSecondAPI ---------------- *)

ClientNames == {"client-a", "client-b"}
APIKeys == {"key-1", "key-2"}

\* time.Duration
Durations == 0..MaxDuration

\* the values of type Option: what WithRequestTimeout(dur),
\* WithDebugLogsEnabled() and RunningOnDryRunMode() return
Options ==
    [kind : {"WithRequestTimeout"}, dur : Durations]
        \cup {[kind |-> "WithDebugLogsEnabled", dur |-> 0],
              [kind |-> "RunningOnDryRunMode", dur |-> 0]}

OptionLists == UNION {[1..n -> Options] : n \in 0..MaxOpts}

\* func WithRequestTimeout(dur): api.requestTimeout = dur
WithRequestTimeout(dur, a) == [a EXCEPT !.requestTimeout = dur]

\* slip: the option enables the dry run as well
WithDebugLogsEnabled_AlsoDryRun(a) ==
    [a EXCEPT !.dumpDebugLogs = TRUE, !.isDryRun = TRUE]

\* func WithDebugLogsEnabled(): api.dumpDebugLogs = true
WithDebugLogsEnabled(a) == [a EXCEPT !.dumpDebugLogs = TRUE]

\* slip: the option flips the flag instead of setting it
RunningOnDryRunMode_Toggle(a) == [a EXCEPT !.isDryRun = ~a.isDryRun]

\* func RunningOnDryRunMode(): api.isDryRun = true
RunningOnDryRunMode(a) == [a EXCEPT !.isDryRun = TRUE]

\* option(api): the call of one Option on the API under construction
ApplyOption(o, a) ==
    CASE o.kind = "WithRequestTimeout" -> WithRequestTimeout(o.dur, a)
      [] o.kind = "WithDebugLogsEnabled" -> WithDebugLogsEnabled(a)
      [] o.kind = "RunningOnDryRunMode" -> RunningOnDryRunMode(a)

\* &ThirdAPI{clientName: clientName, aPIKey: apiKey}
ThirdAPILiteral(clientName, apiKey) ==
    [clientName |-> clientName, aPIKey |-> apiKey, requestTimeout |-> 0,
     dumpDebugLogs |-> FALSE, isDryRun |-> FALSE]

\* NewThirdAPI: the options of a list applied in order to an API
RECURSIVE ApplyAll(_, _)
ApplyAll(opts, a) ==
    IF opts = <<>> THEN a ELSE ApplyAll(Tail(opts), ApplyOption(Head(opts), a))

\* what NewThirdAPI(clientName, apiKey, opts...) returns
NewThirdAPIOf(clientName, apiKey, opts) ==
    ApplyAll(opts, ThirdAPILiteral(clientName, apiKey))

\* NewThirdAPI: api := &ThirdAPI{...}
NewThirdAPI ==
    /\ api = NilAPI
    /\ api' = ThirdAPILiteral(apiArgs.clientName, apiArgs.apiKey)
    /\ applied' = 0
    /\ UNCHANGED <<apiArgs, second, secondApplied>>
    /\ UNCHANGED <<deleteVars, playerVars, builderVars>>

\* slip: the options are applied from the last to the first
RangeOpts_Reversed ==
    /\ api # NilAPI
    /\ applied < Len(apiArgs.opts)
    /\ api' = ApplyOption(apiArgs.opts[Len(apiArgs.opts) - applied], api)
    /\ applied' = applied + 1
    /\ UNCHANGED <<apiArgs, second, secondApplied>>
    /\ UNCHANGED <<deleteVars, playerVars, builderVars>>

\* NewThirdAPI: for _, option := range opts { option(api) }
RangeOpts ==
    /\ api # NilAPI
    /\ applied < Len(apiArgs.opts)
    /\ api' = ApplyOption(apiArgs.opts[applied + 1], api)
    /\ applied' = applied + 1
    /\ UNCHANGED <<apiArgs, second, secondApplied>>
    /\ UNCHANGED <<deleteVars, playerVars, builderVars>>

\* NewThirdAPI has returned api
ThirdReturned == api # NilAPI /\ applied = Len(apiArgs.opts)

\* func NewSecondAPI(clientName, apiKey string) *SecondAPI
NewSecondAPI ==
    /\ second = NilAPI
    /\ second' = [clientName |-> apiArgs.clientName, aPIKey |-> apiArgs.apiKey,
                  requestTimeout |-> 0, dumpDebugLogs |-> FALSE,
                  isDryRun |-> FALSE]
    /\ secondApplied' = 0
    /\ UNCHANGED <<apiArgs, api, applied>>
    /\ UNCHANGED <<deleteVars, playerVars, builderVars>>

\* slip: the method has a value receiver, and the timeout is lost
SecondWithRequestTimeout_ByValue(dur, a) == a

\* func (api *SecondAPI) WithRequestTimeout(dur time.Duration)
SecondWithRequestTimeout(dur, a) == [a EXCEPT !.requestTimeout = dur]

\* the client of the SecondAPI carries the next setting of opts over: a
\* timeout by the method WithRequestTimeout, the only one a SecondAPI has
SecondSetting ==
    /\ second # NilAPI
    /\ secondApplied < Len(apiArgs.opts)
    /\ LET o == apiArgs.opts[secondApplied + 1] IN
          second' = IF o.kind = "WithRequestTimeout"
                       THEN SecondWithRequestTimeout(o.dur, second)
                       ELSE second
    /\ secondApplied' = secondApplied + 1
    /\ UNCHANGED <<apiArgs, api, applied>>
    /\ UNCHANGED <<deleteVars, playerVars, builderVars>>

\* the SecondAPI has received every setting of opts
SecondConfigured == second # NilAPI /\ secondApplied = Len(apiArgs.opts)

\* the constructors are about to be called with any arguments
InitAPI ==
    /\ storage = [id \in Ids |-> NilSpace]
    /\ NoInvocation
    /\ playerStore = [enabled |-> FALSE, next |-> [v \in VideoIDs |-> NoVideo]]
    /\ PlayerIdle
    /\ apiArgs \in [clientName : ClientNames, apiKey : APIKeys, opts : OptionLists]
    /\ APIIdle
    /\ motherArgs = NoMotherArgs
    /\ BuilderIdle

NextAPI ==
    \/ NewThirdAPI
    \/ RangeOpts
    \/ NewSecondAPI
    \/ SecondSetting

SpecAPI == InitAPI /\ [][NextAPI]_vars

(* ---------------- test data: SpaceOwnedBy and its options ---------------- *)

BuilderUsers == {"owner-id", "some-owner-id"}
BuilderIds == {"some-id", "another-id"}

\* the values of type BuilderOption: what UsingID(id), BeingDefault(),
\* NonEmpty() and FilledWith(list) return
BuilderOptions ==
    [kind : {"UsingID"}, id : BuilderIds, list : {<<>>}]
        \cup {[kind |-> "BeingDefault", id |-> "", list |-> <<>>],
              [kind |-> "NonEmpty", id |-> "", list |-> <<>>]}
        \cup [kind : {"FilledWith"}, id : {""}, list : Resources]

BuilderOptionLists == UNION {[1..n -> BuilderOptions] : n \in 0..MaxTweaks}

\* func UsingID(id): s.id = id
UsingID(id, s) == [s EXCEPT !.id = id]

\* func BeingDefault(): s.name = "default"
BeingDefault(s) == [s EXCEPT !.name = "default"]

\* func NonEmpty(): s.resources = []resource{resource{}}
NonEmpty(s) == [s EXCEPT !.resources = <<resource>>]

\* func FilledWith(list): s.resources = list
FilledWith(list, s) == [s EXCEPT !.resources = list]

\* option(s): the call of one BuilderOption on the space being built
ApplyBuilderOption(o, s) ==
    CASE o.kind = "UsingID" -> UsingID(o.id, s)
      [] o.kind = "BeingDefault" -> BeingDefault(s)
      [] o.kind = "NonEmpty" -> NonEmpty(s)
      [] o.kind = "FilledWith" -> FilledWith(o.list, s)

\* func rootSpace() Space
rootSpace ==
    [id |-> "some-id", ownerID |-> "some-owner-id", name |-> "a space name",
     resources |-> <<resource>>]

\* SpaceOwnedBy(userID, opts...): rootSpace(), the receiver of tweak
SpaceOwnedBy ==
    /\ built = NilSpace
    /\ built' = rootSpace
    /\ tweaked' = 0
    /\ UNCHANGED motherArgs
    /\ UNCHANGED <<deleteVars, playerVars, apiVars>>

\* tweak: for _, option := range opts { s = option(s) }
tweak ==
    /\ built # NilSpace
    /\ tweaked < Len(motherArgs.opts)
    /\ built' = ApplyBuilderOption(motherArgs.opts[tweaked + 1], built)
    /\ tweaked' = tweaked + 1
    /\ UNCHANGED motherArgs
    /\ UNCHANGED <<deleteVars, playerVars, apiVars>>

\* SpaceOwnedBy has returned the tweaked space
BuilderReturned == built # NilSpace /\ tweaked = Len(motherArgs.opts)

\* SpaceOwnedBy is about to be called with any arguments
InitBuilder ==
    /\ storage = [id \in Ids |-> NilSpace]
    /\ NoInvocation
    /\ playerStore = [enabled |-> FALSE, next |-> [v \in VideoIDs |-> NoVideo]]
    /\ PlayerIdle
    /\ apiArgs = NoAPIArgs
    /\ APIIdle
    /\ motherArgs \in [userID : BuilderUsers, opts : BuilderOptionLists]
    /\ BuilderIdle

NextBuilder ==
    \/ SpaceOwnedBy
    \/ tweak

SpecBuilder == InitBuilder /\ [][NextBuilder]_vars

TypeOK ==
    /\ storage \in [Ids -> Space \cup {NilSpace}]
    /\ pc \in [Procs -> {"idle", "fetch", "owned", "empty", "default", "remove", "done"}]
    /\ returnedErr \in [Procs -> GuardErrors \cup RemoveResults \cup {NotReturned}]

(* ---------------- vocabulary of the properties ---------------- *)

\* the calls of one Store operation or guard an invocation has made so far
Calls(p, op) == SelectSeq(trace[p], LAMBDA e : e.op = op)

Removals(p) == Calls(p, "RemoveSpaceWithID")

Fetches(p) == Calls(p, "FetchSpaceWithID")

\* the invocation has fetched, and the fetch answered with a space
Fetched(p) == Fetches(p) # <<>> /\ space[p] # NilSpace

\* the invocation has fetched, and the fetch signalled absence
Absent(p) == Fetches(p) # <<>> /\ space[p] = NilSpace

Owned(p) == space[p].ownerID = args[p].whoAmI

Empty(p) == space[p].resources = <<>>

NamedDefault(p) == space[p].name = "default"

\* the four preconditions over the fetched snapshot
Removable(p) == Fetched(p) /\ Owned(p) /\ Empty(p) /\ ~NamedDefault(p)

\* the failure cause of a finished invocation: the last thing it did
LastOp(p) == trace[p][Len(trace[p])].op

(* ---------------- C1 ---------------- *)

\* C1: a call on a fetched space that is owned by the acting user, empty and
\* not named "default", with a removal the Store answers with success,
\* returns no error and has invoked RemoveSpaceWithID exactly once, with the
\* id of the space.
C1_SuccessRemovesOnce ==
    \A p \in Procs :
        (pc[p] = "done" /\ Removable(p) /\ removeResult[p] = nil)
            => /\ returnedErr[p] = nil
               /\ Removals(p) = <<Event("RemoveSpaceWithID", space[p].id)>>

C1_Witness ==
    \E p \in Procs :
        /\ pc[p] = "done" /\ Removable(p) /\ removeResult[p] = nil
        /\ returnedErr[p] = nil
        /\ storage[args[p].id] = NilSpace

(* ---------------- C2 ---------------- *)

\* C2: once the fetch of a call has signalled absence, the call returns
\* errCannotFetchSpace, whoever the acting user is, and never invokes
\* RemoveSpaceWithID.
C2_AbsentIsNotFound ==
    \A p \in Procs :
        Absent(p)
            => /\ pc[p] = "done"
               /\ returnedErr[p] = errCannotFetchSpace
               /\ Removals(p) = <<>>

C2_Witness ==
    \E p, q \in Procs :
        /\ Absent(p) /\ Absent(q)
        /\ args[p].whoAmI # args[q].whoAmI
        /\ returnedErr[p] = errCannotFetchSpace
        /\ returnedErr[q] = errCannotFetchSpace

(* ---------------- C3 ---------------- *)

\* C3: a call whose fetched space is owned by someone other than the acting
\* user never gets past the ownership guard, never invokes RemoveSpaceWithID
\* and returns errNotAnOwnedSpace, whatever the resources and the name of
\* the space.
C3_NotOwned ==
    \A p \in Procs :
        (Fetched(p) /\ ~Owned(p))
            => /\ pc[p] \in {"owned", "done"}
               /\ Removals(p) = <<>>
               /\ pc[p] = "done" => returnedErr[p] = errNotAnOwnedSpace

C3_Witness ==
    \E p \in Procs :
        /\ pc[p] = "done" /\ Fetched(p) /\ ~Owned(p)
        /\ ~Empty(p) /\ NamedDefault(p)
        /\ returnedErr[p] = errNotAnOwnedSpace

(* ---------------- C4 ---------------- *)

\* C4: a call whose fetched space is owned by the acting user and holds
\* resources never gets past the emptiness guard, never invokes
\* RemoveSpaceWithID and returns errNonEmptySpace, also when the space is
\* named "default".
C4_NotEmpty ==
    \A p \in Procs :
        (Fetched(p) /\ Owned(p) /\ ~Empty(p))
            => /\ pc[p] \in {"owned", "empty", "done"}
               /\ Removals(p) = <<>>
               /\ Calls(p, "isTheDefault") = <<>>
               /\ pc[p] = "done" => returnedErr[p] = errNonEmptySpace

C4_Witness ==
    \E p \in Procs :
        /\ pc[p] = "done" /\ Fetched(p) /\ Owned(p) /\ ~Empty(p)
        /\ NamedDefault(p)
        /\ returnedErr[p] = errNonEmptySpace

(* ---------------- C5 ---------------- *)

\* C5: a call whose fetched space is named "default", owned by the acting
\* user and empty never invokes RemoveSpaceWithID and returns
\* errUnremovableDefaultSpace.
C5_ProtectedDefault ==
    \A p \in Procs :
        (Fetched(p) /\ Owned(p) /\ Empty(p) /\ NamedDefault(p))
            => /\ pc[p] # "remove"
               /\ Removals(p) = <<>>
               /\ pc[p] = "done" => returnedErr[p] = errUnremovableDefaultSpace

C5_Witness ==
    \E p \in Procs :
        /\ pc[p] = "done"
        /\ Fetched(p) /\ Owned(p) /\ Empty(p) /\ NamedDefault(p)
        /\ returnedErr[p] = errUnremovableDefaultSpace
        /\ Len(trace[p]) = 4

(* ---------------- C6 ---------------- *)

\* C6: a call whose fetched space passes the four preconditions and whose
\* removal the Store answers with an error returns that very error, which is
\* errSpaceCouldNotBeRemoved and none of the errors of the guards.
C6_RemovalFailed ==
    \A p \in Procs :
        (pc[p] = "done" /\ Removable(p) /\ removeResult[p] # nil)
            => /\ returnedErr[p] = removeResult[p]
               /\ returnedErr[p] = errSpaceCouldNotBeRemoved
               /\ returnedErr[p] \notin GuardErrors \cup {nil}

C6_Witness ==
    \E p \in Procs :
        /\ pc[p] = "done" /\ Removable(p)
        /\ removeResult[p] = errSpaceCouldNotBeRemoved
        /\ returnedErr[p] = errSpaceCouldNotBeRemoved
        /\ Len(Removals(p)) = 1
        /\ storage[args[p].id] # NilSpace

(* ---------------- C7 ---------------- *)

\* C7: an invocation that has invoked RemoveSpaceWithID fetched a space that
\* was present, owned by the acting user, empty and not named "default", and
\* the removal is the last thing it did: no guard is evaluated after it.
C7_RemoveOnlyAfterAllGuards ==
    \A p \in Procs :
        Removals(p) # <<>>
            => /\ Removable(p)
               /\ LastOp(p) = "RemoveSpaceWithID"
               /\ \A i \in 1..Len(trace[p]) :
                     trace[p][i].op = "RemoveSpaceWithID" => i = Len(trace[p])
               /\ Calls(p, "isOwnedBy") # <<>>
               /\ Calls(p, "isEmpty") # <<>>
               /\ Calls(p, "isTheDefault") # <<>>

C7_Witness ==
    \E p, q \in Procs :
        /\ pc[p] = "done" /\ Removals(p) # <<>>
        /\ pc[q] = "done" /\ Removals(q) = <<>> /\ Fetched(q) /\ ~Empty(q)

(* ---------------- C8 ---------------- *)

\* C8: the first thing a call does is FetchSpaceWithID with its id, and it
\* does so exactly once; it invokes RemoveSpaceWithID at most once, exactly
\* once when the four preconditions pass and never otherwise, also when the
\* removal fails.
C8_OneFetchAtMostOneRemove ==
    \A p \in Procs :
        /\ trace[p] # <<>> =>
              /\ trace[p][1] = Event("FetchSpaceWithID", args[p].id)
              /\ Len(Fetches(p)) = 1
        /\ pc[p] \notin {"idle", "fetch"} => Len(Fetches(p)) = 1
        /\ Len(Removals(p)) <= 1
        /\ pc[p] = "done" =>
              Len(Removals(p)) = IF Removable(p) THEN 1 ELSE 0

C8_Witness ==
    \E p, q \in Procs :
        /\ pc[p] = "done" /\ Removable(p)
        /\ removeResult[p] # nil /\ Len(Removals(p)) = 1
        /\ pc[q] = "done" /\ ~Removable(q) /\ Len(Fetches(q)) = 1

(* ---------------- C9 ---------------- *)

C10_DefaultNeverRemoved ==
    [][\A id \in Ids :
          (storage[id] # NilSpace /\ storage[id].name = "default")
              => storage'[id] = storage[id]]_vars

C10_Witness ==
    \E p, q \in Procs :
        /\ pc[p] = "done" /\ returnedErr[p] = errUnremovableDefaultSpace
        /\ storage[args[p].id] # NilSpace
        /\ storage[args[p].id].name = "default"
        /\ pc[q] = "done" /\ returnedErr[q] = nil
        /\ storage[args[q].id] = NilSpace

(* ---------------- C11 ---------------- *)

\* C11: no step of DeleteSpace creates a record or changes a field of one; a
\* call that returns an error leaves every record as it was at each of its
\* steps, and the step by which a call returns success removes the record
\* with the requested id and leaves every other record unchanged.
C11_OnlyTheRequestedRecordGoes ==
    [][/\ \A id \in Ids : storage'[id] \in {storage[id], NilSpace}
       /\ \A p \in Procs :
             (pc[p] # pc'[p] /\ pc'[p] # "fetch") =>
                 IF pc'[p] = "done" /\ returnedErr'[p] = nil
                    THEN storage' = [storage EXCEPT ![args[p].id] = NilSpace]
                    ELSE storage' = storage]_vars

C11_Witness ==
    \E p, q \in Procs :
        /\ pc[p] = "done" /\ returnedErr[p] = nil
        /\ storage[args[p].id] = NilSpace
        /\ \E id \in Ids : id # args[p].id /\ storage[id] # NilSpace
        /\ pc[q] = "done" /\ returnedErr[q] \in GuardErrors
        /\ args[q].id # args[p].id

(* ---------------- C12 ---------------- *)

\* C12: when a caller calls DeleteSpace twice in sequence with the same id
\* and acting user, and the Store answers the second call as it answered
\* the first (the same fetched space, the same answer to a removal), the
\* second call returns what the first returned: success, or the same error.
C12_SameOutcomeTwice ==
    (/\ pc[Caller] = "done"
     /\ last[Caller] # NoCall
     /\ last[Caller].args = args[Caller]
     /\ last[Caller].space = space[Caller]
     /\ last[Caller].removeResult = removeResult[Caller])
        => last[Caller].returnedErr = returnedErr[Caller]

C12_Witness ==
    /\ pc[Caller] = "done"
    /\ last[Caller] # NoCall
    /\ last[Caller].args = args[Caller]
    /\ last[Caller].space = space[Caller]
    /\ last[Caller].space # NilSpace
    /\ last[Caller].removeResult = removeResult[Caller]
    /\ last[Caller].returnedErr = errNonEmptySpace
    /\ returnedErr[Caller] = errNonEmptySpace

(* ---------------- C13 ---------------- *)

\* the six outcomes of a call
Outcomes ==
    {nil, "cannot fetch the space", "only owned spaces can be removed",
     "only empty spaces can be removed", "the default space cannot be removed",
     "the space could not be removed"}

\* C13: every call that has been made returns, and a call that has returned
\* has produced one of the six outcomes: success, or one of the five errors;
\* a call that has not returned yet has produced none.
C13_TerminatesWithOneOutcome ==
    /\ [](\A p \in Procs :
            /\ pc[p] = "done" => returnedErr[p] \in Outcomes
            /\ pc[p] # "done" => returnedErr[p] = NotReturned)
    /\ \A p \in Procs : (pc[p] = "fetch") ~> (pc[p] = "done")

C13_Witness ==
    \E p, q \in Procs :
        /\ pc[p] = "done" /\ returnedErr[p] = "the space could not be removed"
        /\ pc[q] = "done" /\ returnedErr[q] = "the default space cannot be removed"

(* ---------------- C14 ---------------- *)

\* C14: two finished calls with the same arguments and the same fetched
\* space made the same Store calls and evaluated the same guards, and
\* returned the same outcome unless both invoked the removal and the Store
\* answered the two removals differently; this holds whatever calls either
\* invocation made before and whatever the other records of the Store were
\* at the time of each call.
C14_OutcomeDependsOnInputsOnly ==
    \A p, q \in Procs :
        (/\ pc[p] = "done" /\ pc[q] = "done"
         /\ args[p] = args[q]
         /\ space[p] = space[q])
            => /\ trace[p] = trace[q]
               /\ (removeResult[p] = removeResult[q] \/ Removals(p) = <<>>)
                     => returnedErr[p] = returnedErr[q]

C14_Witness ==
    \E p, q \in Procs :
        /\ p # q
        /\ pc[p] = "done" /\ pc[q] = "done"
        /\ args[p] = args[q]
        /\ space[p] = space[q] /\ space[p] # NilSpace
        /\ removeResult[p] # removeResult[q]
        /\ returnedErr[p] = returnedErr[q]
        /\ returnedErr[p] = errNotAnOwnedSpace
        /\ \E id \in Ids : id # args[p].id /\ storage[id] = NilSpace

(* ---------------- C15 ---------------- *)

\* C15: while another actor writes to the Store, a call fetches at most once,
\* the fetched space it holds does not change from the fetch to the return,
\* and the outcome is the one the fetched space commands: the error of the
\* first guard the fetched space fails, and a removal exactly when it fails
\* none, whatever the record in the Store has become in the meantime.
C15_SingleSnapshot ==
    /\ [](/\ Len(Fetches(Caller)) <= 1
          /\ pc[Caller] = "remove" => Removable(Caller)
          /\ pc[Caller] = "done" =>
                /\ Len(Fetches(Caller)) = 1
                /\ Removals(Caller) # <<>> <=> Removable(Caller)
                /\ returnedErr[Caller] = errNotAnOwnedSpace
                      <=> (Fetched(Caller) /\ ~Owned(Caller))
                /\ returnedErr[Caller] = errNonEmptySpace
                      <=> (Fetched(Caller) /\ Owned(Caller) /\ ~Empty(Caller))
                /\ returnedErr[Caller] = errUnremovableDefaultSpace
                      <=> (/\ Fetched(Caller) /\ Owned(Caller)
                           /\ Empty(Caller) /\ NamedDefault(Caller)))
    /\ [][pc[Caller] \in {"owned", "empty", "default", "remove"}
             => space'[Caller] = space[Caller]]_vars

C15_Witness ==
    /\ pc[Caller] = "remove"
    /\ Removable(Caller)
    /\ Len(trace[Caller]) = 4
    /\ storage[args[Caller].id] # NilSpace
    /\ storage[args[Caller].id].name = "default"
    /\ storage[args[Caller].id].ownerID # args[Caller].whoAmI

(* ---------------- C16 ---------------- *)

\* C16: an invocation is never held back by another one: each of its
\* statements can run whatever the other invocation is doing; and two
\* invocations for the same id that both fetched the space while it was
\* removable, and whose removals the Store answers with success, have both
\* invoked RemoveSpaceWithID and both returned success.
C16_NoMutualExclusion ==
    \A p, q \in Procs :
        /\ pc[p] = "fetch" => ENABLED FetchSpace(p)
        /\ pc[p] = "remove" => ENABLED RemoveSpace(p)
        /\ (/\ p # q
            /\ args[p].id = args[q].id
            /\ pc[p] = "done" /\ pc[q] = "done"
            /\ Removable(p) /\ Removable(q)
            /\ removeResult[p] = nil /\ removeResult[q] = nil)
               => /\ returnedErr[p] = nil /\ returnedErr[q] = nil
                  /\ Len(Removals(p)) = 1 /\ Len(Removals(q)) = 1

C16_Witness ==
    \E p, q \in Procs :
        /\ p # q
        /\ args[p].id = args[q].id
        /\ pc[p] = "done" /\ pc[q] = "done"
        /\ Removable(p) /\ Removable(q)
        /\ returnedErr[p] = nil /\ returnedErr[q] = nil
        /\ Len(Removals(p)) = 1 /\ Len(Removals(q)) = 1
        /\ storage[args[p].id] = NilSpace

(* ---------------- vocabulary of the player properties ---------------- *)

\* the use case has been called and has returned
Played == playPc = "done"

\* the calls of one method the use case has made on its store
PlayerCalls(op) == SelectSeq(storeCalls, LAMBDA e : e.op = op)

(* ---------------- C17 ---------------- *)

\* C17: a use case called with the empty string makes no call on the store,
\* neither IsPlayNextEnabled nor NextAfter, and returns NoVideo together
\* with the invalid-video-ID error.
C17_EmptyIsRejectedBeforeTheStore ==
    (playPc # "idle" /\ currentlyPlaying = "")
        => /\ storeCalls = <<>>
           /\ playPc \in {"validate", "done"}
           /\ Played => played = [videoID |-> "", err |-> "invalid video ID"]

C17_Witness ==
    /\ Played
    /\ currentlyPlaying = ""
    /\ played.err = "invalid video ID"
    /\ playerStore.enabled

(* ---------------- C18 ---------------- *)

\* C18: a use case called with a non-empty string over a store whose
\* setting is off never calls NextAfter and returns NoVideo and no error.
C18_DisabledPlaysNothing ==
    (playPc # "idle" /\ currentlyPlaying # "" /\ ~playerStore.enabled)
        => /\ PlayerCalls("NextAfter") = <<>>
           /\ playPc # "next"
           /\ Played => played = [videoID |-> "", err |-> nil]

C18_Witness ==
    /\ Played
    /\ currentlyPlaying # ""
    /\ ~playerStore.enabled
    /\ playerStore.next[currentlyPlaying] # ""
    /\ played = [videoID |-> "", err |-> nil]
    /\ Len(storeCalls) = 1

(* ---------------- C19 ---------------- *)

\* C19: a use case called with a non-empty string over a store whose
\* setting is on returns the store's NextAfter of that video and no error,
\* having called IsPlayNextEnabled once and then NextAfter once, with the
\* video that is playing.
C19_EnabledPlaysTheNext ==
    (Played /\ currentlyPlaying # "" /\ playerStore.enabled)
        => /\ played = [videoID |-> playerStore.next[currentlyPlaying], err |-> nil]
           /\ storeCalls = <<Event("IsPlayNextEnabled", ""),
                             Event("NextAfter", currentlyPlaying)>>

C19_Witness ==
    /\ Played
    /\ currentlyPlaying # ""
    /\ playerStore.enabled
    /\ played.videoID \notin {"", currentlyPlaying}
    /\ played.err = nil
    /\ Len(storeCalls) = 2

(* ---------------- C20 ---------------- *)

\* C20: once the use case has validated its argument, the error VideoIDFrom
\* gave is set exactly when the argument is the empty string; with the
\* error comes NoVideo, and without it a VideoID that reads as the argument
\* and is not NoVideo.
C20_VideoIDFrom ==
    playPc \in {"enabled", "next", "done"}
        => /\ playErr # nil <=> currentlyPlaying = ""
           /\ playErr # nil => (videoID = NoVideo /\ playErr = "invalid video ID")
           /\ playErr = nil => (videoID = currentlyPlaying /\ videoID # NoVideo)

C20_Witness ==
    /\ playPc = "enabled"
    /\ currentlyPlaying = "video-2"
    /\ videoID = "video-2"
    /\ playErr = nil

(* ---------------- vocabulary of the options properties ---------------- *)

\* the options NewThirdAPI has applied so far
AppliedOpts == SubSeq(apiArgs.opts, 1, applied)

\* the positions of the options of one kind in a list
Positions(opts, kind) == {i \in 1..Len(opts) : opts[i].kind = kind}

\* the timeout of the last WithRequestTimeout of a list, 0 without any
LastTimeout(opts) ==
    LET at == Positions(opts, "WithRequestTimeout") IN
    IF at = {} THEN 0
    ELSE opts[CHOOSE i \in at : \A j \in at : j <= i].dur

\* the fields of a configuration
Config(a) ==
    <<a.clientName, a.aPIKey, a.requestTimeout, a.dumpDebugLogs, a.isDryRun>>

(* ---------------- C21 ---------------- *)

\* C21: the API NewThirdAPI builds carries the two required arguments, and
\* after each option its optional settings are the zero values changed by
\* the options applied so far, each once and in argument order: the timeout
\* of the last WithRequestTimeout (0 without one), debug logs on exactly
\* when WithDebugLogsEnabled was given, dry run on exactly when
\* RunningOnDryRunMode was given.
C21_OptionsInOrder ==
    api # NilAPI
        => /\ applied \in 0..Len(apiArgs.opts)
           /\ api.clientName = apiArgs.clientName
           /\ api.aPIKey = apiArgs.apiKey
           /\ api.requestTimeout = LastTimeout(AppliedOpts)
           /\ api.dumpDebugLogs
                 <=> Positions(AppliedOpts, "WithDebugLogsEnabled") # {}
           /\ api.isDryRun
                 <=> Positions(AppliedOpts, "RunningOnDryRunMode") # {}

C21_Witness ==
    /\ ThirdReturned
    /\ Len(apiArgs.opts) = 3
    /\ apiArgs.opts[1] = [kind |-> "WithRequestTimeout", dur |-> 2]
    /\ apiArgs.opts[2] = [kind |-> "RunningOnDryRunMode", dur |-> 0]
    /\ apiArgs.opts[3] = [kind |-> "WithRequestTimeout", dur |-> 1]
    /\ api.requestTimeout = 1
    /\ api.isDryRun /\ ~api.dumpDebugLogs

(* ---------------- C22 ---------------- *)

\* C22: the space SpaceOwnedBy(userID, opts...) returns is owned by userID,
\* whatever the user and whatever the options, none of which sets the owner.
C22_OwnerIsUserID ==
    BuilderReturned => built.ownerID = motherArgs.userID

(* ---------------- C23 ---------------- *)

\* C23: an invocation of the guard-clause DeleteSpace that fetched a space
\* returns what the nested form returns for the same space, acting user and
\* store answer; an invocation whose fetch found no space returns "cannot
\* fetch the space" where the nested form returns "only owned spaces can be
\* removed", and that is the only case in which the two differ.
C23_SameAsNested ==
    \A p \in Procs :
        pc[p] = "done" =>
            LET nested == NestedDeleteSpace(space[p], args[p].whoAmI,
                                            removeResult[p]) IN
            /\ Fetched(p) => returnedErr[p] = nested
            /\ Absent(p) => /\ returnedErr[p] = errCannotFetchSpace
                            /\ nested = errNotAnOwnedSpace
            /\ returnedErr[p] # nested <=> Absent(p)

C23_Witness ==
    /\ pc["call-1"] = "done" /\ Absent("call-1")
    /\ returnedErr["call-1"] = errCannotFetchSpace
    /\ pc["call-2"] = "done" /\ Fetched("call-2")
    /\ Owned("call-2") /\ ~Empty("call-2") /\ NamedDefault("call-2")
    /\ returnedErr["call-2"] = errNonEmptySpace

(* ---------------- C24 ---------------- *)

\* C24: against a Store whose FetchSpaceWithID and RemoveSpaceWithID behave
\* as the hardcoded fetchSpaceWithID and removeSpaceWithID, every finished
\* invocation of the store-injected DeleteSpace has returned what the
\* dependency-free DeleteSpace returns for the same id and acting user.
C24_SameAsHardcoded ==
    \A p \in Procs :
        pc[p] = "done" =>
            returnedErr[p] = DeleteSpace(args[p].id, args[p].whoAmI)

C24_Witness ==
    /\ storage = HardcodedStore
    /\ pc["call-1"] = "done"
    /\ args["call-1"] = [id |-> "fails-on-remove", whoAmI |-> "known-owner"]
    /\ returnedErr["call-1"] = errSpaceCouldNotBeRemoved
    /\ pc["call-2"] = "done"
    /\ args["call-2"] = [id |-> "unknown-space", whoAmI |-> "known-owner"]
    /\ returnedErr["call-2"] = errCannotFetchSpace

(* ---------------- C25 ---------------- *)

\* C25: a SecondAPI built by NewSecondAPI(clientName, apiKey) and then given
\* a timeout by its method WithRequestTimeout(d) has the same client name,
\* API key, timeout, debug flag and dry-run flag as the ThirdAPI that
\* NewThirdAPI(clientName, apiKey, WithRequestTimeout(d)) returns.
C25_SecondEqualsThird ==
    /\ ThirdReturned
    /\ SecondConfigured
    /\ Len(apiArgs.opts) = 1
    /\ apiArgs.opts[1].kind = "WithRequestTimeout"
    => Config(second) = Config(api)

C25_Witness ==
    /\ ThirdReturned
    /\ SecondConfigured
    /\ apiArgs.opts = <<[kind |-> "WithRequestTimeout", dur |-> 2]>>
    /\ second.requestTimeout = 2
    /\ api.requestTimeout = 2

(* ---------------- C28 ---------------- *)

\* the optional settings of an API
OptionalFields == {"requestTimeout", "dumpDebugLogs", "isDryRun"}

\* the field an option sets, and the value it sets it to
FieldOf(o) ==
    CASE o.kind = "WithRequestTimeout" -> "requestTimeout"
      [] o.kind = "WithDebugLogsEnabled" -> "dumpDebugLogs"
      [] o.kind = "RunningOnDryRunMode" -> "isDryRun"

ValueOf(o) == IF o.kind = "WithRequestTimeout" THEN o.dur ELSE TRUE

\* C28: every option NewThirdAPI applies sets its own field and no other:
\* WithRequestTimeout(d) makes the timeout d, WithDebugLogsEnabled turns the
\* debug logs on, RunningOnDryRunMode turns the dry run on, and the client
\* name, the API key and the two other settings stay as they were.
C28_OnlyOwnField ==
    [][(api # NilAPI /\ applied' = applied + 1) =>
          LET o == apiArgs.opts[applied'] IN
          /\ api'[FieldOf(o)] = ValueOf(o)
          /\ \A f \in OptionalFields \ {FieldOf(o)} : api'[f] = api[f]
          /\ api'.clientName = api.clientName
          /\ api'.aPIKey = api.aPIKey]_vars

C28_Witness ==
    /\ ThirdReturned
    /\ Len(apiArgs.opts) = 3
    /\ apiArgs.opts[1] = [kind |-> "WithRequestTimeout", dur |-> 2]
    /\ apiArgs.opts[2] = [kind |-> "WithDebugLogsEnabled", dur |-> 0]
    /\ apiArgs.opts[3] = [kind |-> "RunningOnDryRunMode", dur |-> 0]
    /\ api.requestTimeout = 2 /\ api.dumpDebugLogs /\ api.isDryRun

(* ---------------- C29 ---------------- *)

\* a list with the options at i and i + 1 in each other's place
SwapAt(opts, i) ==
    [k \in 1..Len(opts) |->
        IF k = i THEN opts[i + 1] ELSE IF k = i + 1 THEN opts[i] ELSE opts[k]]

\* a list without its option at j
DropAt(opts, j) == SubSeq(opts, 1, j - 1) \o SubSeq(opts, j + 1, Len(opts))

Flags == {"WithDebugLogsEnabled", "RunningOnDryRunMode"}

\* C29: the API NewThirdAPI returned is the one it returns for the same
\* options with two neighbours that set different fields in each other's
\* place, and the one it returns with a repeated WithDebugLogsEnabled() or
\* RunningOnDryRunMode() passed one time less.
C29_CommuteAndIdempotent ==
    ThirdReturned =>
        LET opts == apiArgs.opts
            same(other) ==
                NewThirdAPIOf(apiArgs.clientName, apiArgs.apiKey, other) = api
        IN
        /\ \A i \in 1..(Len(opts) - 1) :
              opts[i].kind # opts[i + 1].kind => same(SwapAt(opts, i))
        /\ \A i, j \in 1..Len(opts) :
              (i < j /\ opts[i].kind \in Flags /\ opts[i] = opts[j])
                  => same(DropAt(opts, j))

C29_Witness ==
    /\ ThirdReturned
    /\ Len(apiArgs.opts) = 3
    /\ apiArgs.opts[1] = [kind |-> "RunningOnDryRunMode", dur |-> 0]
    /\ apiArgs.opts[2] = [kind |-> "WithRequestTimeout", dur |-> 1]
    /\ apiArgs.opts[3] = [kind |-> "RunningOnDryRunMode", dur |-> 0]
    /\ api.isDryRun /\ api.requestTimeout = 1

(* ---------------- C26 ---------------- *)

\* the ids the earlier calls of the caller have deleted with success
DeletedBefore == IF last[Caller] = NoCall THEN {} ELSE last[Caller].deleted

\* C26: against a Store that deletes a record when its removal succeeds and
\* in which no record is created, a call of DeleteSpace for an id that an
\* earlier call deleted with success never invokes the removal, passes no
\* guard after the fetch and returns "cannot fetch the space", whoever the
\* acting user is.
C26_DeletedStaysDeleted ==
    args[Caller].id \in DeletedBefore =>
        /\ Removals(Caller) = <<>>
        /\ pc[Caller] \in {"fetch", "done"}
        /\ pc[Caller] = "done" => returnedErr[Caller] = errCannotFetchSpace

C26_Witness ==
    /\ pc[Caller] = "done"
    /\ last[Caller] # NoCall
    /\ last[Caller].returnedErr = nil
    /\ last[Caller].args.id = args[Caller].id
    /\ last[Caller].args.whoAmI # args[Caller].whoAmI
    /\ args[Caller].id \in DeletedBefore
    /\ returnedErr[Caller] = errCannotFetchSpace

(* ---------------- C27 ---------------- *)

\* C27: in a sequence of calls of DeleteSpace by any users, a record leaves
\* the Store only in the removal step of a call for its id whose acting user
\* is the owner written in the record, and that call returns success: no
\* user causes the removal of a space another user owns.
C27_RemovedByOwnerOnly ==
    [][\A id \in Ids :
          (storage[id] # NilSpace /\ storage'[id] = NilSpace) =>
              /\ pc[Caller] = "remove"
              /\ pc'[Caller] = "done"
              /\ args[Caller].id = id
              /\ storage[id].ownerID = args[Caller].whoAmI
              /\ returnedErr'[Caller] = nil]_vars

C27_Witness ==
    /\ pc[Caller] = "done"
    /\ returnedErr[Caller] = nil
    /\ storage[args[Caller].id] = NilSpace
    /\ space[Caller].ownerID = args[Caller].whoAmI
    /\ last[Caller] # NoCall
    /\ last[Caller].args.id = args[Caller].id
    /\ last[Caller].args.whoAmI # args[Caller].whoAmI
    /\ last[Caller].returnedErr = errNotAnOwnedSpace

====
